---- MODULE Spec2Model ----
(***************************************************************************)
(* robocad: parametric mounting brackets (servo plate, servo frustum       *)
(* mount, ultrasonic sensor mount) and the frustum polygon interpolation.  *)
(*                                                                         *)
(* Python floats are modelled as a binary floating-point format with       *)
(* round-to-nearest, ties-to-even: a float is the integer n standing for   *)
(* n * 2^-FracBits, and n has at most Precision significant bits.          *)
(* (IEEE double is the same format with 53 significant bits.)  Every       *)
(* arithmetic operator of the source is one correctly rounded operation.   *)
(***************************************************************************)
EXTENDS Integers, Sequences, FiniteSets

VARIABLES
    height,         \* frustum_polygon_at_z: argument height
    base_polygon,   \* frustum_polygon_at_z: argument base_polygon
    top_polygon,    \* frustum_polygon_at_z: argument top_polygon
    zq,             \* z of the latest call of frustum_polygon_at_z
    profile,        \* outcome of the latest call
    zprev,          \* z of the call before it
    profprev,       \* outcome of the call before it
    mount,          \* the Component instance build() was called on
    kernel,         \* build123d operations issued so far by the build
    outcome,        \* what build() returned or raised
    heap,           \* the spec objects mounts refer to, by object name
    workers         \* threads building or exporting a mount, step by step

vars == <<height, base_polygon, top_polygon, zq, profile, zprev, profprev,
          mount, kernel, outcome, heap, workers>>

geomVars == <<height, base_polygon, top_polygon, zq, profile, zprev, profprev>>
buildVars == <<mount, kernel, outcome>>
sessionVars == <<heap, workers>>

-----------------------------------------------------------------------------
(* Bounds of the model *)

Precision == 8
FracBits == 2
MaxVertices == 2
\* threads that construct a mount and build or export it
MaxBuilds == 2

-----------------------------------------------------------------------------
(* Floating point *)

Unit == 2 ^ FracBits

RECURSIVE Ulp(_)
Ulp(a) == IF a < 2 ^ Precision THEN 1 ELSE 2 * Ulp(a \div 2)

\* nearest float to n/d (n >= 0, d > 0), ties to the even mantissa
RoundMag(n, d) ==
    LET u    == Ulp(n \div d)
        lo   == (n \div (d * u)) * u
        r2   == 2 * (n - lo * d)
        half == u * d
    IN  IF r2 < half THEN lo
        ELSE IF r2 > half THEN lo + u
        ELSE IF (lo \div u) % 2 = 0 THEN lo ELSE lo + u

Round(n, d) ==
    LET nn == IF d < 0 THEN -n ELSE n
        dd == IF d < 0 THEN -d ELSE d
    IN  IF nn >= 0 THEN RoundMag(nn, dd) ELSE -RoundMag(-nn, dd)

\* the float a decimal literal n/d of the source denotes
Lit(n, d) == Round(n * Unit, d)

FAdd(x, y) == Round(x + y, 1)
FSub(x, y) == Round(x - y, 1)
FMul(x, y) == Round(x * y, Unit)
FDiv(x, y) == Round(x * Unit, y)
FNeg(x) == -x
FMax(x, y) == IF x >= y THEN x ELSE y

-----------------------------------------------------------------------------
(* Outcomes of a call *)

\* line: the source line of the raise/assert statement (the traceback's line)
NoOutcome == [status |-> "none", value |-> <<>>, exc |-> "", msg |-> "", line |-> 0]
Returned(v) == [status |-> "ok", value |-> v, exc |-> "", msg |-> "", line |-> 0]
Raised(e, m, l) == [status |-> "raised", value |-> <<>>, exc |-> e, msg |-> m, line |-> l]

-----------------------------------------------------------------------------
(* robocad/core/geometry.py *)

lerp(a, b, t) == FAdd(a, FMul(FSub(b, a), t))

lerp_point(p0, p1, t) == <<lerp(p0[1], p1[1], t), lerp(p0[2], p1[2], t)>>

Min(a, b) == IF a <= b THEN a ELSE b

\* zip(base, top): pairs up to the shorter of the two
Zip(b, t) == [i \in 1..Min(Len(b), Len(t)) |-> <<b[i], t[i]>>]

\* the interpolation without the vertex-count check (zip then truncates)
frustum_polygon_at_z_unchecked(z, h, base, top) ==
    IF h = 0 THEN Raised("ValueError", "height must be non-zero", 32)
    ELSE LET t == FDiv(z, h)
             pairs == Zip(base, top)
         IN  Returned([i \in 1..Len(pairs) |->
                          lerp_point(pairs[i][1], pairs[i][2], t)])

frustum_polygon_at_z(z, h, base, top) ==
    IF h = 0 THEN Raised("ValueError", "height must be non-zero", 32)
    ELSE IF Len(base) # Len(top)
    THEN Raised("ValueError",
                "base_polygon and top_polygon must have the same number of vertices", 35)
    ELSE LET t == FDiv(z, h)
             pairs == Zip(base, top)
         IN  Returned([i \in 1..Len(pairs) |->
                          lerp_point(pairs[i][1], pairs[i][2], t)])

-----------------------------------------------------------------------------
(* Inputs of the interpolation *)

Points == { <<Lit(-10, 1), Lit(-95, 10)>>,
            <<Lit(1195, 10), Lit(120, 1)>>,
            <<Lit(1185, 10), Lit(16, 1)>> }

Polygons == UNION { [1..n -> Points] : n \in 0..MaxVertices }

Heights == { Lit(0, 1), Lit(288, 10), Lit(3, 1), Lit(-4, 1) }

Zs == Heights \cup { Lit(15, 10), Lit(40, 1) }

\* no component built yet
NoMount == [kind |-> "none"]

InitGeom ==
    /\ height \in Heights
    /\ base_polygon \in Polygons
    /\ top_polygon \in Polygons
    /\ zq = Lit(0, 1)
    /\ profile = NoOutcome
    /\ zprev = Lit(0, 1)
    /\ profprev = NoOutcome
    /\ mount = NoMount
    /\ kernel = <<>>
    /\ outcome = NoOutcome
    /\ heap = <<>>
    /\ workers = <<>>

\* one call frustum_polygon_at_z(z, height, base_polygon, top_polygon)
CallFrustumPolygonAtZ ==
    \E z \in Zs :
        /\ zq' = z
        /\ profile' = frustum_polygon_at_z(z, height, base_polygon, top_polygon)
        /\ zprev' = zq
        /\ profprev' = profile
        /\ UNCHANGED <<height, base_polygon, top_polygon>>
        /\ UNCHANGED buildVars
        /\ UNCHANGED sessionVars

NextGeom == CallFrustumPolygonAtZ

SpecGeom == InitGeom /\ [][NextGeom]_vars

-----------------------------------------------------------------------------
(* Properties of frustum_polygon_at_z *)

Called == profile.status # "none"

\* C1: for equal vertex counts and a non-zero height the call returns exactly
\* the base polygon at z = 0 and exactly the top polygon at z = height,
\* vertex by vertex and in the same order.
C1_EndpointsExact ==
    (Called /\ height # 0 /\ Len(base_polygon) = Len(top_polygon)) =>
        /\ profile.status = "ok"
        /\ (zq = 0 => profile.value = base_polygon)
        /\ (zq = height => profile.value = top_polygon)

\* the z = 0 half of C1
BaseEndpointExact ==
    (Called /\ height # 0 /\ Len(base_polygon) = Len(top_polygon) /\ zq = 0) =>
        profile = Returned(base_polygon)

HeightError(o) ==
    /\ o.status = "raised"
    /\ o.exc = "ValueError"
    /\ o.msg = "height must be non-zero"

VertexCountError(o) ==
    /\ o.status = "raised"
    /\ o.exc = "ValueError"
    /\ o.msg = "base_polygon and top_polygon must have the same number of vertices"

Between(x, lo, hi) == (lo <= x /\ x <= hi) \/ (hi <= x /\ x <= lo)

\* each coordinate moves from its base value towards its top value
MonotoneCoord(b, t, c1, c2) ==
    /\ (t >= b => c1 <= c2)
    /\ (t <= b => c1 >= c2)

\* C10: for height > 0 and 0 <= z1 <= z2 <= height every coordinate at z2 is
\* no closer to its base value than at z1 (non-decreasing if top >= base,
\* non-increasing if top <= base) and every coordinate lies between its base
\* and top values.
C10_MonotoneBetween ==
    (/\ profile.status = "ok" /\ profprev.status = "ok"
     /\ height > 0 /\ 0 <= zprev /\ zprev <= zq /\ zq <= height) =>
        \A i \in 1..Len(profile.value) : \A k \in 1..2 :
            /\ MonotoneCoord(base_polygon[i][k], top_polygon[i][k],
                             profprev.value[i][k], profile.value[i][k])
            /\ Between(profile.value[i][k], base_polygon[i][k], top_polygon[i][k])

\* the monotonicity half of C10
MonotoneOnly ==
    (/\ profile.status = "ok" /\ profprev.status = "ok"
     /\ height > 0 /\ 0 <= zprev /\ zprev <= zq /\ zq <= height) =>
        \A i \in 1..Len(profile.value) : \A k \in 1..2 :
            MonotoneCoord(base_polygon[i][k], top_polygon[i][k],
                          profprev.value[i][k], profile.value[i][k])

-----------------------------------------------------------------------------
(* robocad/core/parameters.py *)

ServoSpec(bw, bl, bh, ft, fo, ssx, sd) ==
    [body_width |-> bw, body_length |-> bl, body_height |-> bh,
     flange_thickness |-> ft, flange_overhang |-> fo,
     screw_spacing_x |-> ssx, screw_diameter |-> sd]

HCSR04Spec(w, h, t, sx, sy, d, sep, wd) ==
    [board_width |-> w, board_height |-> h, board_thickness |-> t,
     mount_hole_spacing_x |-> sx, mount_hole_spacing_y |-> sy,
     mount_hole_diameter |-> d, windows_separation |-> sep,
     window_diameter |-> wd]

SG90_SPEC ==
    ServoSpec(Lit(122, 10), Lit(235, 10), Lit(225, 10), Lit(2, 1), Lit(2, 1),
              Lit(27, 1), Lit(2, 1))

HCSR04_PCB_SPEC ==
    HCSR04Spec(Lit(45, 1), Lit(30, 1), Lit(2, 1), Lit(40, 1), Lit(16, 1),
               Lit(25, 10), Lit(25, 1), Lit(11, 1))

\* the custom spec of test_robocad.py
CUSTOM_SPEC ==
    ServoSpec(Lit(10, 1), Lit(20, 1), Lit(15, 1), Lit(2, 1), Lit(15, 10),
              Lit(25, 1), Lit(2, 1))

-----------------------------------------------------------------------------
(* build123d operations, as issued by the builds *)

\* at: the Locations the shape is placed at; dims: its numeric arguments
Op(name, md, pl, off, locs, args) ==
    [op |-> name, mode |-> md, plane |-> pl, offset |-> off,
     at |-> locs, dims |-> args]

Origin == << <<0, 0>> >>

Sketch(name, md, pl, off, locs, args) == Op(name, md, pl, off, locs, args)
Feature(name, md, args) == Op(name, md, "", 0, <<>>, args)

Two == Lit(2, 1)

-----------------------------------------------------------------------------
(* robocad/parts/servo.py: ServoMountPlate *)

PlateDims(m) ==
    <<FAdd(m.spec.body_length, FMul(m.margin_x, Two)),
      FAdd(m.spec.body_width, FMul(m.margin_y, Two))>>

CutoutDims(m) ==
    <<FAdd(m.spec.body_length, FMul(Two, m.clearance)),
      FAdd(m.spec.body_width, FMul(Two, m.clearance))>>

\* both screws on the +X side
ScrewPairLocations_sameSide(s) ==
    << <<FDiv(s.screw_spacing_x, Two), 0>>,
       <<FDiv(s.screw_spacing_x, Two), 0>> >>

ScrewPairLocations(s) ==
    << <<FDiv(s.screw_spacing_x, Two), 0>>,
       <<FDiv(FNeg(s.screw_spacing_x), Two), 0>> >>

ServoMountPlate_build(m) ==
    LET s == m.spec
        plate == PlateDims(m)
        cut == CutoutDims(m)
    IN  [kernel |->
            << Sketch("Rectangle", "ADD", "XY", 0, Origin, plate),
               Feature("fillet", "ADD", <<Two>>),
               Sketch("Rectangle", "SUBTRACT", "XY", 0, Origin, cut),
               Sketch("Circle", "SUBTRACT", "XY", 0, ScrewPairLocations(s),
                      <<FDiv(s.screw_diameter, Two)>>),
               Feature("extrude", "ADD", <<m.thickness>>) >>,
         outcome |-> Returned(<<"part.part">>)]

-----------------------------------------------------------------------------
(* robocad/parts/servo.py: ServoFrustumMount *)

TopDims(m) ==
    <<FAdd(FAdd(m.spec.body_length, FMul(Two, m.wall_thickness)), Lit(4, 1)),
      FAdd(FAdd(m.spec.body_width, FMul(Two, m.wall_thickness)), Lit(2, 1))>>

\* the two assertions taken in the other order
FootprintAsserts_widthFirst(m) ==
    IF ~(m.base_width >= TopDims(m)[2]) THEN Raised("AssertionError", "", 105)
    ELSE IF ~(m.base_length >= TopDims(m)[1]) THEN Raised("AssertionError", "", 104)
    ELSE NoOutcome

\* only the length assertion
FootprintAsserts_lengthOnly(m) ==
    IF ~(m.base_length >= TopDims(m)[1]) THEN Raised("AssertionError", "", 104)
    ELSE NoOutcome

\* no assertion at all
FootprintAsserts_none(m) == NoOutcome

\* assert base_length >= top_len; assert base_width >= top_wid
\* (assertions enabled, as the interpreter runs them by default and as
\* test_wall_thickness_constraint expects)
FootprintAsserts(m) ==
    IF ~(m.base_length >= TopDims(m)[1]) THEN Raised("AssertionError", "", 104)
    ELSE IF ~(m.base_width >= TopDims(m)[2]) THEN Raised("AssertionError", "", 105)
    ELSE NoOutcome

\* requires m.height # 0
Mount_lerp(m, bottom_value, top_value, z) ==
    LET t == FDiv(z, m.height)
    IN  FSub(bottom_value, FMul(FSub(bottom_value, top_value), t))

Mount_outer_dims_at_z(m, z, top_len, top_wid) ==
    <<Mount_lerp(m, m.base_length, top_len, z),
      Mount_lerp(m, m.base_width, top_wid, z)>>

Mount_inner_dims_at_z(m, z, top_len, top_wid) ==
    LET LW == Mount_outer_dims_at_z(m, z, top_len, top_wid)
    IN  <<FSub(LW[1], FMul(Two, m.wall_thickness)),
          FSub(LW[2], FMul(Two, m.wall_thickness))>>

BaseHoleLocations(m) ==
    LET x == FSub(FDiv(m.base_length, Two), m.base_mount_hole_inset)
        y == FSub(FDiv(m.base_width, Two), m.base_mount_hole_inset)
    IN  << <<x, FNeg(y)>>, <<x, y>>, <<FNeg(x), FNeg(y)>>, <<FNeg(x), y>> >>

\* steps 2-3: the outer frustum, from the locals top_len, top_wid
OuterFrustumOpsAt(m, top) ==
    << Sketch("Rectangle", "ADD", "XY", 0, Origin, top),
       Feature("fillet", "ADD", <<m.corner_radius>>),
       Sketch("Rectangle", "ADD", "XY", 0, Origin,
              <<m.base_length, m.base_width>>),
       Feature("fillet", "ADD", <<m.corner_radius>>),
       Feature("loft", "ADD", <<Lit(0, 1), m.height>>) >>

OuterFrustumOps(m) == OuterFrustumOpsAt(m, TopDims(m))

\* step 4: the cavity sketches and their private loft
CavityOpsAt(m, top) ==
    LET z_top_inner == FSub(m.height, m.deck_thickness)
        inner0 == Mount_inner_dims_at_z(m, m.bottom_thickness, top[1], top[2])
        inner1 == Mount_inner_dims_at_z(m, z_top_inner, top[1], top[2])
        inner_corner_radius ==
            FMax(FSub(m.corner_radius, m.wall_thickness), 0)
    IN  << Sketch("Rectangle", "PRIVATE", "XY", m.bottom_thickness, Origin, inner0),
           Feature("fillet", "PRIVATE", <<inner_corner_radius>>),
           Sketch("Rectangle", "PRIVATE", "XY", z_top_inner, Origin, inner1),
           Feature("fillet", "PRIVATE", <<inner_corner_radius>>),
           Feature("loft", "PRIVATE", <<m.bottom_thickness, z_top_inner>>) >>

CavityOps(m) == CavityOpsAt(m, TopDims(m))

\* steps 4 (subtract) to 8 without the wire slot of step 7
FeatureOps_noWireSlot(m) ==
    LET s == m.spec
    IN  << Feature("add", "SUBTRACT", <<>>),
           Sketch("Rectangle", "ADD", "XY", m.height, Origin,
                  <<FAdd(s.body_length, Lit(4, 10)), FAdd(s.body_width, Lit(4, 10))>>),
           Feature("extrude", "SUBTRACT", <<FNeg(m.deck_thickness)>>),
           Sketch("Circle", "ADD", "XY", m.height, ScrewPairLocations(s),
                  <<FDiv(s.screw_diameter, Two)>>),
           Feature("extrude", "SUBTRACT", <<FNeg(m.deck_thickness)>>),
           Sketch("Circle", "ADD", "XY", 0, BaseHoleLocations(m),
                  <<FDiv(m.mount_hole_diameter, Two)>>),
           Feature("extrude", "SUBTRACT", <<m.height>>) >>

\* steps 4 (subtract) to 8
FeatureOps(m) ==
    LET s == m.spec
    IN  << Feature("add", "SUBTRACT", <<>>),
           Sketch("Rectangle", "ADD", "XY", m.height, Origin,
                  <<FAdd(s.body_length, Lit(4, 10)), FAdd(s.body_width, Lit(4, 10))>>),
           Feature("extrude", "SUBTRACT", <<FNeg(m.deck_thickness)>>),
           Sketch("Circle", "ADD", "XY", m.height, ScrewPairLocations(s),
                  <<FDiv(s.screw_diameter, Two)>>),
           Feature("extrude", "SUBTRACT", <<FNeg(m.deck_thickness)>>),
           Sketch("Rectangle", "ADD", "YZ", 0,
                  << <<0, FAdd(FDiv(m.wire_slot_height, Two), m.bottom_thickness)>> >>,
                  <<m.wire_slot_width, m.wire_slot_height>>),
           Feature("extrude", "SUBTRACT", <<m.base_length>>),
           Sketch("Circle", "ADD", "XY", 0, BaseHoleLocations(m),
                  <<FDiv(m.mount_hole_diameter, Two)>>),
           Feature("extrude", "SUBTRACT", <<m.height>>) >>

ServoFrustumMount_build(m) ==
    IF FootprintAsserts(m).status = "raised"
    THEN [kernel |-> <<>>, outcome |-> FootprintAsserts(m)]
    ELSE IF m.height = 0
    THEN [kernel |-> OuterFrustumOps(m),
          outcome |-> Raised("ZeroDivisionError", "float division by zero", 183)]
    ELSE IF m.debug_view
    THEN [kernel |-> OuterFrustumOps(m) \o CavityOps(m),
          outcome |-> Returned(<<"core_cutout">>)]
    ELSE [kernel |-> OuterFrustumOps(m) \o CavityOps(m) \o FeatureOps(m),
          outcome |-> Returned(<<"main_body.part">>)]

-----------------------------------------------------------------------------
(* robocad/parts/ultrasonic.py: UltrasonicSensorMount *)

WindowLocations(s) ==
    << <<FDiv(s.windows_separation, Two), 0>>,
       <<FNeg(FDiv(s.windows_separation, Two)), 0>> >>

BoardHoleLocations(s) ==
    LET x == FDiv(s.mount_hole_spacing_x, Two)
        y == FDiv(s.mount_hole_spacing_y, Two)
    IN  << <<x, y>>, <<x, FNeg(y)>>, <<FNeg(x), y>>, <<FNeg(x), FNeg(y)>> >>

UltrasonicSensorMount_build(m) ==
    LET s == m.spec
        plate_width == FAdd(s.board_width, FMul(Two, m.margin_x))
        plate_height == FAdd(s.board_height, FMul(Two, m.margin_y))
        flange_y == FDiv(m.flange_length, Two)
        fx == FDiv(m.flange_hole_spacing, Two)
    IN  [kernel |->
            << Sketch("Rectangle", "ADD", "XY", 0, Origin,
                      <<plate_width, plate_height>>),
               Sketch("Circle", "SUBTRACT", "XY", 0, WindowLocations(s),
                      <<FDiv(s.window_diameter, Two)>>),
               Sketch("Circle", "SUBTRACT", "XY", 0, BoardHoleLocations(s),
                      <<FDiv(s.mount_hole_diameter, Two)>>),
               Feature("extrude", "ADD", <<m.mount_thickness>>),
               Sketch("Rectangle", "ADD", "XZ", FDiv(FNeg(plate_height), Two),
                      << <<0, flange_y>> >>, <<plate_width, m.flange_length>>),
               Sketch("Circle", "SUBTRACT", "XZ", FDiv(FNeg(plate_height), Two),
                      << <<fx, FAdd(flange_y, 0)>>, <<FNeg(fx), FAdd(flange_y, 0)>> >>,
                      <<FDiv(m.flange_screw_diameter, Two)>>),
               Feature("extrude", "ADD", <<FNeg(m.flange_thickness)>>) >>,
         outcome |-> Returned(<<"combined_part.part">>)]

-----------------------------------------------------------------------------
(* Mount configurations *)

ServoSpecs == { SG90_SPEC, CUSTOM_SPEC }

ServoMountPlate(s, t, c, my, mx) ==
    [kind |-> "ServoMountPlate", spec |-> s, thickness |-> t,
     clearance |-> c, margin_y |-> my, margin_x |-> mx]

DefaultPlate == ServoMountPlate(SG90_SPEC, Lit(3, 1), Lit(3, 10), Lit(3, 1), Lit(4, 1))

PlateConfigs ==
    { ServoMountPlate(s, t, c, my, mx) :
        s \in ServoSpecs,
        t \in { Lit(3, 1), Lit(2, 1) },
        c \in { Lit(3, 10), Lit(5, 10), Lit(5, 1) },
        my \in { Lit(3, 1), Lit(5, 1), Lit(-7, 1) },
        mx \in { Lit(4, 1), Lit(5, 1), Lit(8, 1), Lit(0, 1), Lit(-12, 1) } }

DefaultFrustum ==
    [kind |-> "ServoFrustumMount", spec |-> SG90_SPEC, debug_view |-> FALSE,
     base_length |-> Lit(42, 1), base_width |-> Lit(32, 1),
     height |-> Lit(288, 10), wall_thickness |-> Lit(25, 10),
     deck_thickness |-> Lit(3, 1), bottom_thickness |-> Lit(3, 1),
     corner_radius |-> Lit(3, 1), base_mount_hole_inset |-> Lit(4, 1),
     mount_hole_diameter |-> Lit(3, 1), wire_slot_width |-> Lit(8, 1),
     wire_slot_height |-> Lit(8, 1)]

\* 16384 and 8192 are a base and a wall so large that the + 4.0 and + 2.0 of
\* the top footprint are lost to rounding (4e20 and 2e20 for a double)
FrustumConfigs ==
    { [DefaultFrustum EXCEPT !.spec = s, !.debug_view = d, !.base_length = bl,
                             !.base_width = bw, !.height = h,
                             !.wall_thickness = w, !.bottom_thickness = b,
                             !.base_mount_hole_inset = i] :
        s \in ServoSpecs, d \in BOOLEAN,
        bl \in { Lit(42, 1), Lit(50, 1), Lit(20, 1), Lit(64, 1), Lit(16384, 1) },
        bw \in { Lit(32, 1), Lit(16384, 1) },
        h \in { Lit(288, 10), Lit(0, 1) },
        w \in { Lit(25, 10), Lit(100, 1), Lit(16, 1), Lit(0, 1), Lit(8192, 1) },
        b \in { Lit(3, 1), Lit(120, 1) },
        i \in { Lit(4, 1), Lit(25, 1) } }

DefaultUltrasonic ==
    [kind |-> "UltrasonicSensorMount", spec |-> HCSR04_PCB_SPEC,
     mount_thickness |-> Lit(3, 1), clearance |-> Lit(3, 10),
     margin_y |-> Lit(4, 1), margin_x |-> Lit(4, 1),
     flange_thickness |-> Lit(3, 1), flange_length |-> Lit(11, 1),
     mount_screw_diameter |-> Lit(2, 1), flange_screw_diameter |-> Lit(2, 1),
     flange_hole_spacing |-> Lit(24, 1)]

UltrasonicConfigs ==
    { [DefaultUltrasonic EXCEPT !.spec = s, !.margin_x = mx,
                                !.flange_hole_spacing = f] :
        s \in { HCSR04_PCB_SPEC,
                [HCSR04_PCB_SPEC EXCEPT !.mount_hole_spacing_x = Lit(41, 1),
                                        !.windows_separation = Lit(26, 1)] },
        mx \in { Lit(4, 1), Lit(2, 1) },
        f \in { Lit(24, 1), Lit(20, 1) } }

-----------------------------------------------------------------------------
(* The builds as operations *)

InitBuild ==
    /\ height = Lit(288, 10)
    /\ base_polygon = <<>>
    /\ top_polygon = <<>>
    /\ zq = Lit(0, 1)
    /\ profile = NoOutcome
    /\ zprev = Lit(0, 1)
    /\ profprev = NoOutcome
    /\ mount = NoMount
    /\ kernel = <<>>
    /\ outcome = NoOutcome
    /\ heap = <<>>
    /\ workers = <<>>

\* m.build() ran and ended as r: what it issued and what it returned or raised
BuildServoMountPlate(m, r) ==
    /\ mount' = m
    /\ kernel' = r.kernel
    /\ outcome' = r.outcome
    /\ UNCHANGED geomVars
    /\ UNCHANGED sessionVars

BuildServoFrustumMount(m, r) ==
    /\ mount' = m
    /\ kernel' = r.kernel
    /\ outcome' = r.outcome
    /\ UNCHANGED geomVars
    /\ UNCHANGED sessionVars

BuildUltrasonicSensorMount(m, r) ==
    /\ mount' = m
    /\ kernel' = r.kernel
    /\ outcome' = r.outcome
    /\ UNCHANGED geomVars
    /\ UNCHANGED sessionVars

NextBuild ==
    \/ \E m \in PlateConfigs : BuildServoMountPlate(m, ServoMountPlate_build(m))
    \/ \E m \in FrustumConfigs : BuildServoFrustumMount(m, ServoFrustumMount_build(m))
    \/ \E m \in UltrasonicConfigs :
           BuildUltrasonicSensorMount(m, UltrasonicSensorMount_build(m))

SpecBuild == InitBuild /\ [][NextBuild]_vars

-----------------------------------------------------------------------------
(* Properties of the builds *)

IsFrustum == mount.kind = "ServoFrustumMount"
IsPlate == mount.kind = "ServoMountPlate"

LengthViolated(m) == m.base_length < TopDims(m)[1]
WidthViolated(m) == m.base_width < TopDims(m)[2]

\* the inner profile at the base has a dimension <= 0
AtOrAboveDegeneracy(m) ==
    FMul(Two, m.wall_thickness) >= Min(m.base_length, m.base_width)

BareAssertionError(o) ==
    /\ o.status = "raised"
    /\ o.exc = "AssertionError"
    /\ o.msg = ""
    /\ o.value = <<>>

DegenerateWallRejected ==
    (IsFrustum /\ AtOrAboveDegeneracy(mount)) => outcome.status = "raised"

CavityRects == { i \in DOMAIN kernel :
                    kernel[i].op = "Rectangle" /\ kernel[i].mode = "PRIVATE" }

\* C3: whenever the build reaches the kernel, both cavity cross-sections
\* handed to loft have positive length and width and lie strictly inside the
\* outer cross-section at the same height.
C3_CavityStrictlyInside ==
    IsFrustum =>
        \A i \in CavityRects :
            LET outer == Mount_outer_dims_at_z(mount, kernel[i].offset,
                                               TopDims(mount)[1], TopDims(mount)[2])
            IN  /\ kernel[i].dims[1] > 0
                /\ kernel[i].dims[2] > 0
                /\ kernel[i].dims[1] < outer[1]
                /\ kernel[i].dims[2] < outer[2]

\* the constraints a configuration violates, in the order they are checked
ViolatedConstraints(m) ==
    (IF LengthViolated(m) THEN <<104>> ELSE <<>>)
        \o (IF WidthViolated(m) THEN <<105>> ELSE <<>>)

\* the violations an outcome identifies: a failed assert identifies its line
ReportedViolations(o) ==
    IF o.status = "raised" /\ o.exc = "AssertionError" THEN <<o.line>> ELSE <<>>

PlateRects == { i \in DOMAIN kernel :
                   kernel[i].op = "Rectangle" /\ kernel[i].mode = "ADD" }

CutoutRects == { i \in DOMAIN kernel :
                    kernel[i].op = "Rectangle" /\ kernel[i].mode = "SUBTRACT" }

Extruded == \E i \in DOMAIN kernel : kernel[i].op = "extrude"

\* C6: the base plate has length body_length + 2*margin_x and width
\* body_width + 2*margin_y, both strictly exceeding the body's; a plate
\* dimension <= 0 fails with ConfigError and no profile is produced.
C6_PlateExceedsBody ==
    IsPlate =>
        LET len == FAdd(mount.spec.body_length, FMul(Two, mount.margin_x))
            wid == FAdd(mount.spec.body_width, FMul(Two, mount.margin_y))
        IN  /\ (len <= 0 \/ wid <= 0 =>
                   outcome.status = "raised" /\ PlateRects = {})
            /\ \A i \in PlateRects :
                   /\ kernel[i].dims = <<len, wid>>
                   /\ len > mount.spec.body_length
                   /\ wid > mount.spec.body_width
            /\ (mount = DefaultPlate =>
                   \E i \in PlateRects : kernel[i].dims[1] = Lit(315, 10))

\* the part of C6 about the dimensions alone
PlateDimsFormula ==
    IsPlate =>
        /\ PlateRects # {}
        /\ \A i \in PlateRects :
               kernel[i].dims =
                   <<FAdd(mount.spec.body_length, FMul(Two, mount.margin_x)),
                     FAdd(mount.spec.body_width, FMul(Two, mount.margin_y))>>
        /\ (mount = DefaultPlate =>
               \E i \in PlateRects : kernel[i].dims[1] = Lit(315, 10))

\* C7: the body cutout is strictly smaller than the base plate in both axes;
\* a configuration where it is not is rejected and never reaches extrude.
C7_CutoutInsidePlate ==
    IsPlate =>
        /\ (Extruded =>
               \A i \in CutoutRects : \A j \in PlateRects :
                   /\ kernel[i].dims[1] < kernel[j].dims[1]
                   /\ kernel[i].dims[2] < kernel[j].dims[2])
        /\ (mount.clearance >= mount.margin_x \/ mount.clearance >= mount.margin_y
               => outcome.status = "raised" /\ ~Extruded)

HoleOps == { i \in DOMAIN kernel :
                kernel[i].op = "Circle" /\ kernel[i].plane = "XY" }

Centers(i) == { kernel[i].at[k] : k \in DOMAIN kernel[i].at }

MirrorX(S) == { <<-p[1], p[2]>> : p \in S }
MirrorY(S) == { <<p[1], -p[2]>> : p \in S }

HasServoSpec == mount.kind \in {"ServoMountPlate", "ServoFrustumMount"}

\* C9: hole centers are mirror-symmetric about both centerlines: the servo
\* screw pair lies at (+spacing/2, 0) and (-spacing/2, 0) (27.0 gives 13.5),
\* the four base holes at (+-(base_length/2 - inset), +-(base_width/2 -
\* inset)), and every set of hole centers is unchanged by negating x or y.
C9_HolesMirrorSymmetric ==
    /\ \A i \in HoleOps :
           /\ MirrorX(Centers(i)) = Centers(i)
           /\ MirrorY(Centers(i)) = Centers(i)
    /\ (HasServoSpec /\ outcome.value \in {<<"part.part">>, <<"main_body.part">>} =>
           \E i \in HoleOps :
               LET h == FDiv(mount.spec.screw_spacing_x, Two)
               IN  /\ kernel[i].at = << <<h, 0>>, <<-h, 0>> >>
                   /\ (mount.spec.screw_spacing_x = Lit(27, 1) => h = Lit(135, 10)))
    /\ (IsFrustum /\ outcome.value = <<"main_body.part">> =>
           \E i \in HoleOps :
               LET x == FSub(FDiv(mount.base_length, Two), mount.base_mount_hole_inset)
                   y == FSub(FDiv(mount.base_width, Two), mount.base_mount_hole_inset)
               IN  /\ Len(kernel[i].at) = 4
                   /\ Centers(i) = { <<x, y>>, <<x, -y>>, <<-x, y>>, <<-x, -y>> })

C9_Witness ==
    /\ IsFrustum
    /\ outcome.value = <<"main_body.part">>
    /\ mount.spec = SG90_SPEC
    /\ \E i \in HoleOps : kernel[i].at = << <<Lit(135, 10), 0>>, <<Lit(-135, 10), 0>> >>
    /\ \E i \in HoleOps : Cardinality(Centers(i)) = 4

(* Concurrent builds and exports: robocad/core/part.py and the builds, step by step *)

Workers == 1..MaxBuilds

\* the module-level spec objects of parameters.py, by name
SpecObjects == [SG90_SPEC |-> SG90_SPEC, HCSR04_PCB_SPEC |-> HCSR04_PCB_SPEC]

\* s = self.spec: the mount with its spec reference followed
Deref(h, m) == [m EXCEPT !.spec = h[m.spec]]

\* mounts as constructed: the spec field holds a reference to a spec object
FrustumRef == [DefaultFrustum EXCEPT !.spec = "SG90_SPEC"]
PlateRef == [DefaultPlate EXCEPT !.spec = "SG90_SPEC"]
UltrasonicRef == [DefaultUltrasonic EXCEPT !.spec = "HCSR04_PCB_SPEC"]

\* the constructor calls and the method then called on the mount
Sessions ==
    { <<FrustumRef, "build">>, <<FrustumRef, "export_stl">>,
      <<FrustumRef, "export_step">>,
      <<[FrustumRef EXCEPT !.debug_view = TRUE], "build">>,
      <<[FrustumRef EXCEPT !.debug_view = TRUE], "export_stl">>,
      <<[FrustumRef EXCEPT !.wall_thickness = Lit(100, 1)], "build">>,
      <<[FrustumRef EXCEPT !.wall_thickness = Lit(100, 1)], "export_stl">>,
      <<[FrustumRef EXCEPT !.height = Lit(0, 1)], "export_step">>,
      <<PlateRef, "build">>, <<PlateRef, "export_stl">>,
      <<UltrasonicRef, "build">> }

SessionMounts == { c[1] : c \in Sessions }

\* a thread that has not constructed its mount yet
Idle ==
    [pc |-> "none", self |-> NoMount, made |-> NoMount, call |-> "",
     top |-> <<>>, kernel |-> <<>>, outcome |-> NoOutcome, exported |-> <<>>]

\* where build() starts for each class
FirstStep(m) ==
    IF m.kind = "ServoFrustumMount" THEN "assert"
    ELSE IF m.kind = "ServoMountPlate" THEN "plate"
    ELSE "ultrasonic"

\* the spec objects after a step of a build of m: build() reads s = self.spec
\* and assigns to no attribute of it
SpecsAfter_clearanceInPlace(h, m) ==
    IF m.kind = "ServoFrustumMount"
    THEN [h EXCEPT ![m.spec].body_length = FAdd(@, Lit(4, 10))]
    ELSE h

SpecsAfter(h, m) == h

\* build() ends: an exception leaves export_stl/export_step too, a returned
\* solid goes back to the caller of build() or on to the exporter
Finish(wk, k, o) ==
    [wk EXCEPT !.kernel = k, !.outcome = o,
               !.pc = IF o.status = "raised" THEN "raised"
                      ELSE IF wk.call = "build" THEN "done"
                      ELSE "built"]

\* step 1: top_len, top_wid and the two asserts
AfterAsserts(h, wk) ==
    LET m == Deref(h, wk.self)
    IN  IF FootprintAsserts(m).status = "raised"
        THEN Finish(wk, wk.kernel, FootprintAsserts(m))
        ELSE [wk EXCEPT !.top = TopDims(m), !.pc = "outer"]

\* steps 2-3: the outer loft
AfterOuter(h, wk) ==
    [wk EXCEPT !.kernel = @ \o OuterFrustumOpsAt(Deref(h, wk.self), wk.top),
               !.pc = "cavity"]

\* step 4: the cavity loft, returned as it is under debug_view
AfterCavity(h, wk) ==
    LET m == Deref(h, wk.self)
    IN  IF m.height = 0
        THEN Finish(wk, wk.kernel,
                    Raised("ZeroDivisionError", "float division by zero", 183))
        ELSE IF m.debug_view
        THEN Finish(wk, wk.kernel \o CavityOpsAt(m, wk.top),
                    Returned(<<"core_cutout">>))
        ELSE [wk EXCEPT !.kernel = @ \o CavityOpsAt(m, wk.top),
                        !.pc = "features"]

\* steps 4 (subtract) to 8 and the return of main_body.part
AfterFeatures(h, wk) ==
    Finish(wk, wk.kernel \o FeatureOps(Deref(h, wk.self)),
           Returned(<<"main_body.part">>))

AfterPlate(h, wk) ==
    Finish(wk, ServoMountPlate_build(Deref(h, wk.self)).kernel,
           ServoMountPlate_build(Deref(h, wk.self)).outcome)

AfterUltrasonic(h, wk) ==
    Finish(wk, UltrasonicSensorMount_build(Deref(h, wk.self)).kernel,
           UltrasonicSensorMount_build(Deref(h, wk.self)).outcome)

\* export_stl(solid, path) / export_step(solid, path) of build123d
AfterExport(wk) ==
    [wk EXCEPT !.exported = Append(@, [fn |-> wk.call, solid |-> wk.outcome.value]),
               !.pc = "done"]

InitSession ==
    /\ height = Lit(288, 10)
    /\ base_polygon = <<>>
    /\ top_polygon = <<>>
    /\ zq = Lit(0, 1)
    /\ profile = NoOutcome
    /\ zprev = Lit(0, 1)
    /\ profprev = NoOutcome
    /\ mount = NoMount
    /\ kernel = <<>>
    /\ outcome = NoOutcome
    /\ heap = SpecObjects
    /\ workers = [w \in Workers |-> Idle]

\* thread w constructs mount c
Construct(w, c) ==
    /\ workers[w].pc = "none"
    /\ workers' = [workers EXCEPT ![w] = [@ EXCEPT !.pc = "new", !.self = c[1],
                                                   !.made = c[1], !.call = c[2]]]
    /\ UNCHANGED <<heap, geomVars, buildVars>>

\* thread w calls build(), export_stl(path) or export_step(path) on its mount
Call(w) ==
    /\ workers[w].pc = "new"
    /\ workers' = [workers EXCEPT ![w].pc = FirstStep(workers[w].self)]
    /\ UNCHANGED <<heap, geomVars, buildVars>>

\* thread w takes the next step of its build, the one its pc names
StepAsserts(w) ==
    /\ workers[w].pc = "assert"
    /\ workers' = [workers EXCEPT ![w] = AfterAsserts(heap, @)]
    /\ heap' = SpecsAfter(heap, workers[w].self)
    /\ UNCHANGED <<geomVars, buildVars>>

StepOuter(w) ==
    /\ workers[w].pc = "outer"
    /\ workers' = [workers EXCEPT ![w] = AfterOuter(heap, @)]
    /\ heap' = SpecsAfter(heap, workers[w].self)
    /\ UNCHANGED <<geomVars, buildVars>>

StepCavity(w) ==
    /\ workers[w].pc = "cavity"
    /\ workers' = [workers EXCEPT ![w] = AfterCavity(heap, @)]
    /\ heap' = SpecsAfter(heap, workers[w].self)
    /\ UNCHANGED <<geomVars, buildVars>>

StepFeatures(w) ==
    /\ workers[w].pc = "features"
    /\ workers' = [workers EXCEPT ![w] = AfterFeatures(heap, @)]
    /\ heap' = SpecsAfter(heap, workers[w].self)
    /\ UNCHANGED <<geomVars, buildVars>>

StepPlate(w) ==
    /\ workers[w].pc = "plate"
    /\ workers' = [workers EXCEPT ![w] = AfterPlate(heap, @)]
    /\ heap' = SpecsAfter(heap, workers[w].self)
    /\ UNCHANGED <<geomVars, buildVars>>

StepUltrasonic(w) ==
    /\ workers[w].pc = "ultrasonic"
    /\ workers' = [workers EXCEPT ![w] = AfterUltrasonic(heap, @)]
    /\ heap' = SpecsAfter(heap, workers[w].self)
    /\ UNCHANGED <<geomVars, buildVars>>

\* build() has returned inside export_stl/export_step: the exporter is called
Export(w) ==
    /\ workers[w].pc = "built"
    /\ workers' = [workers EXCEPT ![w] = AfterExport(@)]
    /\ UNCHANGED <<heap, geomVars, buildVars>>

NextSession ==
    \/ \E w \in Workers, c \in Sessions : Construct(w, c)
    \/ \E w \in Workers : Call(w)
    \/ \E w \in Workers : StepAsserts(w)
    \/ \E w \in Workers : StepOuter(w)
    \/ \E w \in Workers : StepCavity(w)
    \/ \E w \in Workers : StepFeatures(w)
    \/ \E w \in Workers : StepPlate(w)
    \/ \E w \in Workers : StepUltrasonic(w)
    \/ \E w \in Workers : Export(w)

SpecSession == InitSession /\ [][NextSession]_vars

(* Properties of builds and exports running side by side *)

IsFrustumWorker(w) == workers[w].self.kind = "ServoFrustumMount"

\* a sketch of the given shape on the given plane at n places, cut out of the body
CutOut(k, shape, pl, n) ==
    \E i \in 1..(Len(k) - 1) :
        /\ k[i].op = shape /\ k[i].plane = pl /\ Len(k[i].at) = n
        /\ k[i + 1].op = "extrude" /\ k[i + 1].mode = "SUBTRACT"

\* cavity, servo pocket, screw holes, wire slot and base holes are all applied
AllFeatureSteps(k) ==
    /\ \E i \in 1..Len(k) : k[i].op = "add" /\ k[i].mode = "SUBTRACT"
    /\ \E i \in 1..(Len(k) - 1) :
           /\ k[i].op = "Rectangle" /\ k[i].plane = "XY" /\ k[i].mode = "ADD"
           /\ k[i + 1].op = "extrude" /\ k[i + 1].mode = "SUBTRACT"
    /\ CutOut(k, "Circle", "XY", 2)
    /\ CutOut(k, "Rectangle", "YZ", 1)
    /\ CutOut(k, "Circle", "XY", 4)

NoFeatureStep(k) == \A i \in 1..Len(k) : k[i].mode # "SUBTRACT"

\* the exporter is called only inside export_stl/export_step, only with the
\* solid build() returned and once, and never after build() raised
ExporterCalledOnceAfterBuild(w) ==
    LET wk == workers[w]
    IN  /\ wk.exported # <<>> =>
               /\ Len(wk.exported) = 1
               /\ wk.call \in {"export_stl", "export_step"}
               /\ wk.outcome.status = "ok"
               /\ wk.exported[1] = [fn |-> wk.call, solid |-> wk.outcome.value]
        /\ wk.pc = "done" /\ wk.call # "build" => Len(wk.exported) = 1
        /\ wk.outcome.status = "raised" => wk.exported = <<>> /\ wk.outcome.value = <<>>

\* C11 (as stated): for every configuration, debug_view included, a frustum
\* build that returns a solid has applied all feature steps (cavity, servo
\* pocket, screw holes, wire slot, base holes), otherwise it returns no solid;
\* and the exporter is called once, only after build() returned, never after
\* build() failed.
C11_AllFeaturesOrNoSolid ==
    \A w \in Workers :
        /\ IsFrustumWorker(w) /\ workers[w].outcome.status = "ok" =>
               AllFeatureSteps(workers[w].kernel)
        /\ ExporterCalledOnceAfterBuild(w)

\* C11 (amended): with debug_view off, a frustum build that returns has applied
\* all feature steps and returns main_body.part; with debug_view on it returns
\* the cavity loft core_cutout with no feature step applied; a build that
\* raises returns no solid; and the exporter is called once, with the solid
\* build() returned, only after build() returned, never after build() failed.
C11_AllFeaturesUnlessDebugView ==
    \A w \in Workers :
        /\ IsFrustumWorker(w) /\ workers[w].outcome.status = "ok"
              /\ ~workers[w].self.debug_view =>
               /\ AllFeatureSteps(workers[w].kernel)
               /\ workers[w].outcome.value = <<"main_body.part">>
        /\ IsFrustumWorker(w) /\ workers[w].outcome.status = "ok"
              /\ workers[w].self.debug_view =>
               /\ NoFeatureStep(workers[w].kernel)
               /\ workers[w].outcome.value = <<"core_cutout">>
        /\ ExporterCalledOnceAfterBuild(w)

\* one thread exported a complete frustum mount while another one's export
\* ended in the ZeroDivisionError raised after the outer loft
C11_Witness ==
    /\ \E w \in Workers :
           /\ IsFrustumWorker(w) /\ ~workers[w].self.debug_view
           /\ workers[w].pc = "done" /\ workers[w].call = "export_stl"
           /\ Len(workers[w].exported) = 1
           /\ Len(workers[w].kernel) = 19
    /\ \E w \in Workers :
           /\ workers[w].pc = "raised" /\ workers[w].call = "export_step"
           /\ workers[w].outcome.exc = "ZeroDivisionError"
           /\ Len(workers[w].kernel) = 5

\* what build() of mount m returns and issues when it runs alone
SoloBuild(m) ==
    IF m.kind = "ServoFrustumMount"
    THEN ServoFrustumMount_build(Deref(SpecObjects, m))
    ELSE IF m.kind = "ServoMountPlate"
    THEN ServoMountPlate_build(Deref(SpecObjects, m))
    ELSE UltrasonicSensorMount_build(Deref(SpecObjects, m))

BuildEnded(w) == workers[w].pc \in {"built", "done", "raised"}

====
